---- MODULE Spec2Model ----
(***************************************************************************)
(* Conversation pipeline of the tutoring-chat backend: send_message,       *)
(* get_chat_messages and clear_chat_messages (app/api/messages.py), the    *)
(* Orchestrator (app/services/orchestrator.py) and the AIClient gateway    *)
(* (app/services/ai_client.py), over the messages and chats tables; and    *)
(* create_chat and delete_chat (app/api/chats.py) and the feedback         *)
(* handlers with the tutor's rating (app/api/feedbacks.py).                *)
(*                                                                         *)
(* Every request handler is a sequence of steps, one per database round    *)
(* trip or upstream call (the awaits of the handler); requests of          *)
(* different clients interleave between those steps.                       *)
(*                                                                         *)
(* Message.created_at has server_default now(): on PostgreSQL this is the  *)
(* start time of the transaction that inserts the row.  A session begins   *)
(* a transaction at its first statement after a commit.                    *)
(***************************************************************************)
EXTENDS Integers, Sequences, FiniteSets, TLC

VARIABLES
    messages,   \* the messages table: a set of rows
    nextId,     \* the next value of the sequence behind messages.id
    now,        \* the clock
    chats,      \* the chats table: id -> row
    clears,     \* per chat, the clear_chat_messages requests committed so far
    wr,         \* the requests in flight, one per handler slot
    rd          \* the response get_chat_messages returned last, kept while no
                \* other request has taken a step since

VARIABLES
    nextChatId,       \* the next value of the sequence behind chats.id
    feedbacks,        \* the feedbacks table: a set of rows
    nextFeedbackId,   \* the next value of the sequence behind feedbacks.id
    rating,           \* tutors.rating per tutor, in hundredths (DECIMAL(3,2))
    total_feedbacks   \* tutors.total_feedbacks per tutor

\* what the handlers of app/api/messages.py leave alone
chat_feedback_vars == <<nextChatId, feedbacks, nextFeedbackId, rating, total_feedbacks>>

vars == <<messages, nextId, now, chats, clears, wr, rd,
          nextChatId, feedbacks, nextFeedbackId, rating, total_feedbacks>>

----------------------------------------------------------------------------
(* Bounds of the model *)

\* identifiers the messages sequence may hand out in Spec
MaxId == 4
\* identifiers the messages sequence may hand out in SpecLong
MaxLongId == 24
\* clear_chat_messages requests
MaxClears == 1
\* largest page size requested
MaxLimit == 3
\* identifiers handed to messages of the chats other than chat 1
MaxOther == 2
\* identifiers the messages sequence may hand out in SpecSeq
MaxSeqId == 2
\* identifiers the chats sequence may hand out
MaxChats == 4
\* identifiers the feedbacks sequence may hand out in SpecRating
MaxFeedbacks == 3
\* identifiers the feedbacks sequence may hand out in SpecSeq
MaxSeqFeedbacks == 2
\* feedback and chat identifiers handed out where every handler runs
MaxAllFeedbacks == 1
MaxAllChats == 3
\* feedback identifiers handed out to the feedback export
MaxExportFeedbacks == 2

----------------------------------------------------------------------------
(* Program constants *)

\* .limit(20) of the history query of send_message
HistoryLimit == 20
\* max_messages=10 passed to _format_message_history
MaxMessages == 10
\* NULL of chats.last_message_at (timestamps start at 1), of
\* feedbacks.rating (1..5) and of feedbacks.message_id (ids start at 1)
Null == 0

----------------------------------------------------------------------------
(* Data *)

Writers == {1, 2}
Users == {1, 2}
\* chat 3 does not exist
ChatIds == {1, 2, 3}
Contents == {"q1"}
Replies == {"r1"}

\* the tutors table (models/tutor.py); tutor 2 has an empty system_prompt
Tutors == (1 :> [name |-> "Python", system_prompt |-> "sp1", model_id |-> "m1",
                 is_active |-> TRUE])
       @@ (2 :> [name |-> "Math",   system_prompt |-> "",    model_id |-> "m2",
                 is_active |-> TRUE])
       @@ (3 :> [name |-> "Retired", system_prompt |-> "sp3", model_id |-> "m3",
                 is_active |-> FALSE])
\* tutor 4 does not exist
TutorIds == {1, 2, 3, 4}

\* what the upstream inference service does with one request
Upstream == [kind : {"ok"}, text : Replies]
      \cup  [kind : {"timeout", "http_error", "transport_error"}, text : {""}]

Min(a, b) == IF a < b THEN a ELSE b

Take(s, k) == SubSeq(s, 1, Min(k, Len(s)))

Reverse(s) == [i \in 1..Len(s) |-> s[Len(s) + 1 - i]]

\* the messages of one chat: WHERE Message.chat_id == chat_id
ChatMessages(c) == {m \in messages : m.chat_id = c}

\* the rows of S with the greatest / least created_at
Newest(S) == {m \in S : \A o \in S : o.created_at <= m.created_at}
Oldest(S) == {m \in S : \A o \in S : o.created_at >= m.created_at}

\* ORDER BY created_at DESC: every order the database may return; rows with
\* equal created_at come in any order (the query names no second key)
RECURSIVE OrderByCreatedAtDesc(_)
OrderByCreatedAtDesc(S) ==
    IF S = {} THEN {<<>>}
    ELSE UNION {{<<m>> \o s : s \in OrderByCreatedAtDesc(S \ {m})} : m \in Newest(S)}

\* ORDER BY created_at (ascending)
RECURSIVE OrderByCreatedAt(_)
OrderByCreatedAt(S) ==
    IF S = {} THEN {<<>>}
    ELSE UNION {{<<m>> \o s : s \in OrderByCreatedAt(S \ {m})} : m \in Oldest(S)}

----------------------------------------------------------------------------
(* Orchestrator and gateway *)

\* AIClient.generate_response: the message of the Exception raised for each
\* kind of upstream failure
generate_response_error(kind) ==
    CASE kind = "timeout"         -> "AI Core service timeout"
      [] kind = "http_error"      -> "AI Core returned error"
      [] kind = "transport_error" -> "Failed to connect to AI Core"

\* AIClient.chat_completion: the reply text, or an error naming the category
chat_completion(prompt, up) ==
    IF up.kind = "ok"
    THEN [raised |-> FALSE, text |-> up.text, error |-> ""]
    ELSE [raised |-> TRUE, text |-> "", error |-> generate_response_error(up.kind)]

\* a _format_message_history that forgets to cut the list to max_messages
format_message_history_uncut(msgs, max_messages) ==
    [i \in 1..Len(msgs) |-> [role |-> msgs[i].role, content |-> msgs[i].content]]

\* Orchestrator._format_message_history
format_message_history(msgs, max_messages) ==
    LET recent == IF Len(msgs) > max_messages
                  THEN SubSeq(msgs, Len(msgs) - max_messages + 1, Len(msgs))
                  ELSE msgs
    IN  [i \in 1..Len(recent) |-> [role |-> recent[i].role, content |-> recent[i].content]]

\* the fallback f-string of _build_system_prompt
FallbackPrompt(name) ==
    CASE name = "Python" -> "fallback prompt: Python"
      [] name = "Math"   -> "fallback prompt: Math"

\* a _build_system_prompt without the fallback for an empty stored prompt
build_system_prompt_no_fallback(tutor) == tutor.system_prompt

\* Orchestrator._build_system_prompt
build_system_prompt(tutor) ==
    IF tutor.system_prompt # "" THEN tutor.system_prompt ELSE FallbackPrompt(tutor.name)

\* Orchestrator._build_rag_context: always None
build_rag_context(tutor) == ""

\* the list process_user_message sends to the gateway
BuildPrompt(tutor, user_message, message_history) ==
    LET formatted_history == format_message_history(message_history, MaxMessages)
        system_prompt == build_system_prompt(tutor)
        rag_context == build_rag_context(tutor)
    IN  <<[role |-> "system", content |-> system_prompt]>>
        \o (IF rag_context # "" THEN <<[role |-> "system", content |-> rag_context]>> ELSE <<>>)
        \o formatted_history
        \o <<[role |-> "user", content |-> user_message]>>

\* the "graceful" f-string the orchestrator returns from its except branch
Apology(error) ==
    CASE error = "AI Core service timeout"      -> "apology: AI Core service timeout"
      [] error = "AI Core returned error"       -> "apology: AI Core returned error"
      [] error = "Failed to connect to AI Core" -> "apology: Failed to connect to AI Core"

\* Orchestrator.process_user_message: try chat_completion, except Exception
process_user_message(tutor, user_message, message_history, up) ==
    LET response == chat_completion(BuildPrompt(tutor, user_message, message_history), up)
    IN  IF response.raised
        THEN [raised |-> FALSE, text |-> Apology(response.error)]
        ELSE [raised |-> FALSE, text |-> response.text]

----------------------------------------------------------------------------
(* State *)

NoUpstream == [kind |-> "none", text |-> ""]

IdleWriter ==
    [pc |-> "idle", op |-> "none", chat |-> 0, content |-> "", tutor |-> 0,
     txn |-> 0, uid |-> 0, epoch |-> 0, history |-> <<>>, prompt |-> <<>>,
     up |-> NoUpstream, raised |-> FALSE, reply |-> "", aid |-> 0,
     status |-> 0, del |-> {},
     user |-> 0, ret |-> 0, message_id |-> 0, rating |-> 0,
     allow_training |-> FALSE, fid |-> 0, list |-> <<>>,
     avg |-> [sum |-> 0, count |-> 0],
     loaded |-> [rating |-> 0, total_feedbacks |-> 0]]

\* custom_name: Optional[str] (Chat.custom_name, ChatUpdate.custom_name)
NoName == [given |-> FALSE, name |-> ""]
Name(n) == [given |-> TRUE, name |-> n]

\* before_id: Optional[int] = Query(None)
NoBefore == [given |-> FALSE, id |-> 0]
Before(i) == [given |-> TRUE, id |-> i]

IdleReader ==
    [status |-> 0, user |-> 0, chat |-> 0, limit |-> 0, before |-> NoBefore,
     messages |-> <<>>, has_more |-> FALSE, total |-> 0,
     walk |-> "none", acc |-> <<>>]

Init ==
    /\ messages = {}
    /\ nextId = 1
    /\ now = 1
    /\ chats = (1 :> [user_id |-> 1, tutor_id |-> 1, custom_name |-> NoName, last_message_at |-> Null])
            @@ (2 :> [user_id |-> 2, tutor_id |-> 2, custom_name |-> NoName, last_message_at |-> Null])
    /\ clears = [c \in ChatIds |-> 0]
    /\ wr = [p \in Writers |-> IdleWriter]
    /\ rd = IdleReader
    /\ nextChatId = 3
    /\ feedbacks = {}
    /\ nextFeedbackId = 1
    /\ rating = [t \in DOMAIN Tutors |-> 0]
    /\ total_feedbacks = [t \in DOMAIN Tutors |-> 0]

\* a lookup of the chat by its id alone
ChatFound_any_owner(c, u) == c \in DOMAIN chats

\* select(Chat).where(Chat.id == chat_id, Chat.user_id == current_user.id)
ChatFound(c, u) == c \in DOMAIN chats /\ chats[c].user_id = u

\* a timestamp a request may read: the clock stands or has advanced since the
\* last reading of any request, and it has advanced since this request began
\* its current transaction (a round trip to the database or to the upstream
\* service lies between)
Clock(p, t) == t \in {now, now + 1} /\ t > wr[p].txn

Free(p) == wr[p].pc \in {"idle", "done"}

\* requests are anonymous: a new one takes the first free handler
FirstFree(p) == Free(p) /\ \A q \in Writers : q < p => ~Free(q)

\* identifiers a request in flight will still take from the sequence
Pending(p) ==
    IF wr[p].op # "send" THEN 0
    ELSE CASE wr[p].pc = "store" -> 2
           [] wr[p].pc \in {"refresh", "history", "inference", "persist"} -> 1
           [] OTHER -> 0

Reserved == (nextId - 1) + Pending(1) + Pending(2)

\* identifiers chat c holds or is about to be handed
Held(c) == Cardinality(ChatMessages(c))
           + Cardinality({q \in Writers : wr[q].chat = c /\ Pending(q) = 2}) * 2
           + Cardinality({q \in Writers : wr[q].chat = c /\ Pending(q) = 1})

\* the bounds on the send_message requests the model starts
MaySend(c, max) == Reserved + 2 <= max /\ (c # 1 => Held(c) + 2 <= MaxOther)

\* the bound on the clear_chat_messages requests the model starts
MayClear ==
    clears[1] + clears[2] + clears[3]
    + Cardinality({q \in Writers : wr[q].op = "clear" /\ wr[q].pc = "commit"}) < MaxClears

----------------------------------------------------------------------------
(* send_message *)

\* the Message send_message builds from the request body
UserMessage(id, chat_id, content, created_at) ==
    [id |-> id, chat_id |-> chat_id, role |-> "user", content |-> content,
     model_id |-> "", created_at |-> created_at]

\* an assistant Message built without the tutor's model_id in its metadata
AiMessage_no_model(id, chat_id, content, model_id, created_at) ==
    [id |-> id, chat_id |-> chat_id, role |-> "assistant", content |-> content,
     model_id |-> "", created_at |-> created_at]

\* the Message send_message builds from the orchestrator's text
AiMessage(id, chat_id, content, model_id, created_at) ==
    [id |-> id, chat_id |-> chat_id, role |-> "assistant", content |-> content,
     model_id |-> model_id, created_at |-> created_at]

\* steps 1-2: the session begins its transaction at time t, selects the chat
\* and the tutor
send_message_check(p, u, c, content, t) ==
    /\ Free(p)
    /\ IF ~ChatFound(c, u)
       THEN /\ wr' = [wr EXCEPT ![p] = [IdleWriter EXCEPT
                      !.pc = "done", !.op = "send", !.status = 404]]
            /\ now' = now
       ELSE IF chats[c].tutor_id \notin DOMAIN Tutors
       THEN /\ wr' = [wr EXCEPT ![p] = [IdleWriter EXCEPT
                      !.pc = "done", !.op = "send", !.status = 500]]
            /\ now' = now
       ELSE /\ t \in {now, now + 1}
            /\ now' = t
            /\ wr' = [wr EXCEPT ![p] = [IdleWriter EXCEPT
                      !.pc = "store", !.op = "send", !.chat = c, !.user = u,
                      !.content = content, !.txn = t,
                      !.tutor = chats[c].tutor_id]]
    /\ rd' = IdleReader
    /\ UNCHANGED chat_feedback_vars
    /\ UNCHANGED <<messages, nextId, chats, clears>>

\* a step 3 that adds the user message to the session without committing it
send_message_store_uncommitted(p) ==
    /\ wr[p].pc = "store" /\ wr[p].op = "send"
    /\ wr' = [wr EXCEPT ![p].pc = "refresh", ![p].epoch = clears[wr[p].chat]]
    /\ rd' = IdleReader
    /\ UNCHANGED chat_feedback_vars
    /\ UNCHANGED <<messages, nextId, now, chats, clears>>

\* step 3: db.add(user_message); commit
send_message_store(p) ==
    /\ wr[p].pc = "store" /\ wr[p].op = "send"
    /\ messages' = messages \cup
         {UserMessage(nextId, wr[p].chat, wr[p].content, wr[p].txn)}
    /\ nextId' = nextId + 1
    /\ wr' = [wr EXCEPT ![p].pc = "refresh", ![p].uid = nextId,
                        ![p].epoch = clears[wr[p].chat]]
    /\ rd' = IdleReader
    /\ UNCHANGED chat_feedback_vars
    /\ UNCHANGED <<now, chats, clears>>

\* a send_message that waits, after storing its message, until no other
\* request is at work on the same chat
send_message_refresh_exclusive(p, t) ==
    /\ wr[p].pc = "refresh" /\ wr[p].op = "send"
    /\ \A q \in Writers \ {p} : wr[q].chat = wr[p].chat => Free(q)
    /\ Clock(p, t)
    /\ now' = t
    /\ wr' = [wr EXCEPT ![p].pc = "history", ![p].txn = t]
    /\ rd' = IdleReader
    /\ UNCHANGED chat_feedback_vars
    /\ UNCHANGED <<messages, nextId, chats, clears>>

\* db.refresh(user_message): the first statement after the commit begins, at
\* time t, the transaction in which the reply is inserted later
send_message_refresh(p, t) ==
    /\ wr[p].pc = "refresh" /\ wr[p].op = "send"
    /\ Clock(p, t)
    /\ now' = t
    /\ wr' = [wr EXCEPT ![p].pc = "history", ![p].txn = t]
    /\ rd' = IdleReader
    /\ UNCHANGED chat_feedback_vars
    /\ UNCHANGED <<messages, nextId, chats, clears>>

\* step 4: select(Message).where(chat_id).order_by(created_at).limit(20)
send_message_history(p) ==
    /\ wr[p].pc = "history" /\ wr[p].op = "send"
    /\ \E q \in OrderByCreatedAt(ChatMessages(wr[p].chat)) :
         wr' = [wr EXCEPT ![p].pc = "inference", ![p].history = Take(q, HistoryLimit)]
    /\ rd' = IdleReader
    /\ UNCHANGED chat_feedback_vars
    /\ UNCHANGED <<messages, nextId, now, chats, clears>>

\* a step 5 that calls the orchestrator again after a failed attempt
send_message_inference_retrying(p, up) ==
    /\ wr[p].pc = "inference" /\ wr[p].op = "send"
    /\ LET tutor == Tutors[wr[p].tutor]
           result == process_user_message(tutor, wr[p].content, wr[p].history, up)
       IN  IF up.kind # "ok" /\ wr[p].up.kind = "none"
           THEN wr' = [wr EXCEPT ![p].up = up]
           ELSE wr' = [wr EXCEPT ![p].pc = "persist", ![p].up = up,
                            ![p].prompt = BuildPrompt(tutor, wr[p].content, wr[p].history),
                            ![p].raised = result.raised, ![p].reply = result.text,
                            ![p].history = <<>>]
    /\ rd' = IdleReader
    /\ UNCHANGED chat_feedback_vars
    /\ UNCHANGED <<messages, nextId, now, chats, clears>>

\* step 5: orchestrator.process_user_message; the upstream answers or fails
send_message_inference(p, up) ==
    /\ wr[p].pc = "inference" /\ wr[p].op = "send"
    /\ LET tutor == Tutors[wr[p].tutor]
           result == process_user_message(tutor, wr[p].content, wr[p].history, up)
       IN  wr' = [wr EXCEPT ![p].pc = "persist", ![p].up = up,
                            ![p].prompt = BuildPrompt(tutor, wr[p].content, wr[p].history),
                            ![p].raised = result.raised, ![p].reply = result.text,
                            ![p].history = <<>>]
    /\ rd' = IdleReader
    /\ UNCHANGED chat_feedback_vars
    /\ UNCHANGED <<messages, nextId, now, chats, clears>>

\* a send_message that commits the reply before it touches the chat row
send_message_persist_reply_only(p, t) ==
    /\ wr[p].pc = "persist" /\ wr[p].op = "send"
    /\ Clock(p, t)
    /\ now' = t
    /\ messages' = messages \cup
         {AiMessage(nextId, wr[p].chat, wr[p].reply,
                    Tutors[wr[p].tutor].model_id, wr[p].txn)}
    /\ nextId' = nextId + 1
    /\ wr' = [wr EXCEPT ![p].pc = "done", ![p].aid = nextId,
                        ![p].status = 200, ![p].prompt = <<>>, ![p].txn = 0]
    /\ rd' = IdleReader
    /\ UNCHANGED chat_feedback_vars
    /\ UNCHANGED <<chats, clears>>

\* the except branch (HTTP 500), or steps 6-8: db.add(ai_message);
\* chat.last_message_at = datetime.utcnow(), read at time t; commit; return
\* both messages
send_message_persist(p, t) ==
    /\ wr[p].pc = "persist" /\ wr[p].op = "send"
    /\ IF wr[p].raised
       THEN /\ wr' = [wr EXCEPT ![p].pc = "done", ![p].status = 500,
                                ![p].prompt = <<>>, ![p].txn = 0]
            /\ UNCHANGED <<messages, nextId, now, chats>>
       ELSE /\ Clock(p, t)
            /\ now' = t
            /\ messages' = messages \cup
                 {AiMessage(nextId, wr[p].chat, wr[p].reply,
                            Tutors[wr[p].tutor].model_id, wr[p].txn)}
            /\ nextId' = nextId + 1
            /\ chats' = [chats EXCEPT ![wr[p].chat].last_message_at = t]
            /\ wr' = [wr EXCEPT ![p].pc = "done", ![p].aid = nextId,
                                ![p].status = 200, ![p].prompt = <<>>,
                                ![p].txn = 0]
    /\ rd' = IdleReader
    /\ UNCHANGED chat_feedback_vars
    /\ UNCHANGED clears

----------------------------------------------------------------------------
(* clear_chat_messages *)

\* select the chat; delete(Message).where(Message.chat_id == chat_id)
clear_chat_messages_delete(p, u, c) ==
    /\ Free(p)
    /\ IF ~ChatFound(c, u)
       THEN wr' = [wr EXCEPT ![p] = [IdleWriter EXCEPT
                   !.pc = "done", !.op = "clear", !.status = 404]]
       ELSE wr' = [wr EXCEPT ![p] = [IdleWriter EXCEPT
                   !.pc = "commit", !.op = "clear", !.chat = c, !.user = u,
                   !.del = {m.id : m \in ChatMessages(c)}]]
    /\ rd' = IdleReader
    /\ UNCHANGED chat_feedback_vars
    /\ UNCHANGED <<messages, nextId, now, chats, clears>>

\* feedbacks.message_id is ForeignKey("messages.id", ondelete="SET NULL")
SetNull(F, ids) ==
    {IF f.message_id \in ids THEN [f EXCEPT !.message_id = Null] ELSE f : f \in F}

\* a clear_chat_messages that leaves the chat row as it is
clear_chat_messages_commit_keeps_time(p) ==
    /\ wr[p].pc = "commit" /\ wr[p].op = "clear"
    /\ messages' = {m \in messages : m.id \notin wr[p].del}
    /\ feedbacks' = SetNull(feedbacks, wr[p].del)
    /\ clears' = [clears EXCEPT ![wr[p].chat] = @ + 1]
    /\ wr' = [wr EXCEPT ![p].pc = "done", ![p].status = 204, ![p].del = {}]
    /\ rd' = IdleReader
    /\ UNCHANGED <<nextId, now, chats, nextChatId, nextFeedbackId, rating,
                   total_feedbacks>>

\* chat.last_message_at = None; commit
clear_chat_messages_commit(p) ==
    /\ wr[p].pc = "commit" /\ wr[p].op = "clear"
    /\ messages' = {m \in messages : m.id \notin wr[p].del}
    /\ feedbacks' = SetNull(feedbacks, wr[p].del)
    /\ UNCHANGED <<nextChatId, nextFeedbackId, rating, total_feedbacks>>
    /\ chats' = [chats EXCEPT ![wr[p].chat].last_message_at = Null]
    /\ clears' = [clears EXCEPT ![wr[p].chat] = @ + 1]
    /\ wr' = [wr EXCEPT ![p].pc = "done", ![p].status = 204, ![p].del = {}]
    /\ rd' = IdleReader
    /\ UNCHANGED <<nextId, now>>

----------------------------------------------------------------------------
(* create_chat, delete_chat *)

\* select(Chat).where(Chat.user_id == ..., Chat.tutor_id == ...)
ChatsOf(u, tutor_id) ==
    {c \in DOMAIN chats : chats[c].user_id = u /\ chats[c].tutor_id = tutor_id}

\* the bound on the create_chat requests the model starts
MayCreate ==
    nextChatId + Cardinality({q \in Writers : wr[q].op = "create_chat"
                                              /\ wr[q].pc = "insert"}) <= MaxChats

\* a create_chat that skips the lookup of an existing chat
create_chat_check_no_lookup(p, u, tutor_id) ==
    /\ Free(p)
    /\ IF tutor_id \notin DOMAIN Tutors \/ ~Tutors[tutor_id].is_active
       THEN wr' = [wr EXCEPT ![p] = [IdleWriter EXCEPT
                   !.pc = "done", !.op = "create_chat", !.status = 404]]
       ELSE wr' = [wr EXCEPT ![p] = [IdleWriter EXCEPT
                   !.pc = "insert", !.op = "create_chat",
                   !.user = u, !.tutor = tutor_id]]
    /\ rd' = IdleReader
    /\ UNCHANGED <<messages, nextId, now, chats, clears>>
    /\ UNCHANGED chat_feedback_vars

\* select the tutor; select the chat of (user, tutor); return it if there is
\* one
create_chat_check(p, u, tutor_id) ==
    /\ Free(p)
    /\ IF tutor_id \notin DOMAIN Tutors \/ ~Tutors[tutor_id].is_active
       THEN wr' = [wr EXCEPT ![p] = [IdleWriter EXCEPT
                   !.pc = "done", !.op = "create_chat", !.status = 404]]
       ELSE IF ChatsOf(u, tutor_id) # {}
       THEN \E existing_chat \in ChatsOf(u, tutor_id) :
            wr' = [wr EXCEPT ![p] = [IdleWriter EXCEPT
                   !.pc = "done", !.op = "create_chat", !.status = 201,
                   !.user = u, !.tutor = tutor_id, !.ret = existing_chat]]
       ELSE wr' = [wr EXCEPT ![p] = [IdleWriter EXCEPT
                   !.pc = "insert", !.op = "create_chat",
                   !.user = u, !.tutor = tutor_id]]
    /\ rd' = IdleReader
    /\ UNCHANGED <<messages, nextId, now, chats, clears>>
    /\ UNCHANGED chat_feedback_vars

\* an INSERT into a chats table without the unique constraint
create_chat_insert_unconstrained(p) ==
    /\ wr[p].pc = "insert" /\ wr[p].op = "create_chat"
    /\ chats' = chats @@ (nextChatId :> [user_id |-> wr[p].user,
                                         tutor_id |-> wr[p].tutor,
                                         custom_name |-> NoName,
                                         last_message_at |-> Null])
    /\ nextChatId' = nextChatId + 1
    /\ wr' = [wr EXCEPT ![p].pc = "done", ![p].status = 201, ![p].ret = nextChatId]
    /\ rd' = IdleReader
    /\ UNCHANGED <<messages, nextId, now, clears,
                   feedbacks, nextFeedbackId, rating, total_feedbacks>>

\* db.add(new_chat); commit.  The INSERT takes its id from the sequence, then
\* UniqueConstraint('user_id', 'tutor_id') rejects a second chat of the pair:
\* the IntegrityError ends the request with HTTP 500 (main.py)
create_chat_insert(p) ==
    /\ wr[p].pc = "insert" /\ wr[p].op = "create_chat"
    /\ nextChatId' = nextChatId + 1
    /\ IF ChatsOf(wr[p].user, wr[p].tutor) # {}
       THEN /\ wr' = [wr EXCEPT ![p].pc = "done", ![p].status = 500]
            /\ UNCHANGED chats
       ELSE /\ chats' = chats @@ (nextChatId :> [user_id |-> wr[p].user,
                                                tutor_id |-> wr[p].tutor,
                                                custom_name |-> NoName,
                                                last_message_at |-> Null])
            /\ wr' = [wr EXCEPT ![p].pc = "done", ![p].status = 201,
                                ![p].ret = nextChatId]
    /\ rd' = IdleReader
    /\ UNCHANGED <<messages, nextId, now, clears,
                   feedbacks, nextFeedbackId, rating, total_feedbacks>>

\* the feedbacks relationship of Chat: WHERE Feedback.chat_id == chat.id
ChatFeedbacks(c) == {f \in feedbacks : f.chat_id = c}

\* a delete_chat under which the database's ON DELETE CASCADE removes the
\* chat's feedback rows
delete_chat_cascading(p, u, c) ==
    /\ Free(p)
    /\ IF ~ChatFound(c, u)
       THEN /\ wr' = [wr EXCEPT ![p] = [IdleWriter EXCEPT
                      !.pc = "done", !.op = "delete_chat", !.status = 404]]
            /\ UNCHANGED <<messages, chats, feedbacks>>
       ELSE /\ chats' = [d \in DOMAIN chats \ {c} |-> chats[d]]
            /\ messages' = messages \ ChatMessages(c)
            /\ feedbacks' = SetNull(feedbacks \ ChatFeedbacks(c),
                                    {m.id : m \in ChatMessages(c)})
            /\ wr' = [wr EXCEPT ![p] = [IdleWriter EXCEPT
                      !.pc = "done", !.op = "delete_chat", !.status = 204,
                      !.chat = c, !.user = u]]
    /\ rd' = IdleReader
    /\ UNCHANGED <<nextId, now, clears, nextChatId, nextFeedbackId,
                   rating, total_feedbacks>>

\* select the chat; db.delete(chat); commit.  The unit of work deletes the
\* chat's messages (cascade="all, delete-orphan"; the feedback rows that name
\* them get message_id NULL) and, Chat.feedbacks having no delete cascade,
\* sets chat_id of the chat's feedback rows to NULL before it deletes the
\* chat: chat_id is nullable=False, so with such rows the flush raises
\* IntegrityError, the transaction is rolled back and the answer is HTTP 500
delete_chat(p, u, c) ==
    /\ Free(p)
    /\ IF ~ChatFound(c, u)
       THEN /\ wr' = [wr EXCEPT ![p] = [IdleWriter EXCEPT
                      !.pc = "done", !.op = "delete_chat", !.status = 404]]
            /\ UNCHANGED <<messages, chats, feedbacks>>
       ELSE IF ChatFeedbacks(c) # {}
       THEN /\ wr' = [wr EXCEPT ![p] = [IdleWriter EXCEPT
                      !.pc = "done", !.op = "delete_chat", !.status = 500,
                      !.chat = c, !.user = u]]
            /\ UNCHANGED <<messages, chats, feedbacks>>
       ELSE /\ chats' = [d \in DOMAIN chats \ {c} |-> chats[d]]
            /\ messages' = messages \ ChatMessages(c)
            /\ feedbacks' = SetNull(feedbacks, {m.id : m \in ChatMessages(c)})
            /\ wr' = [wr EXCEPT ![p] = [IdleWriter EXCEPT
                      !.pc = "done", !.op = "delete_chat", !.status = 204,
                      !.chat = c, !.user = u]]
    /\ rd' = IdleReader
    /\ UNCHANGED <<nextId, now, clears, nextChatId, nextFeedbackId,
                   rating, total_feedbacks>>

\* update_chat: select the chat (404 if it is not the user's);
\* `if update_data.custom_name is not None: chat.custom_name = ...`; commit
update_chat(p, u, c, custom_name) ==
    /\ Free(p)
    /\ IF ~ChatFound(c, u)
       THEN /\ wr' = [wr EXCEPT ![p] = [IdleWriter EXCEPT
                      !.pc = "done", !.op = "update_chat", !.status = 404]]
            /\ UNCHANGED chats
       ELSE /\ chats' = IF custom_name.given
                        THEN [chats EXCEPT ![c].custom_name = custom_name]
                        ELSE chats
            /\ wr' = [wr EXCEPT ![p] = [IdleWriter EXCEPT
                      !.pc = "done", !.op = "update_chat", !.status = 200,
                      !.chat = c, !.user = u, !.ret = c]]
    /\ rd' = IdleReader
    /\ UNCHANGED chat_feedback_vars
    /\ UNCHANGED <<messages, nextId, now, clears>>

----------------------------------------------------------------------------
(* Feedback and the tutor's rating *)

\* the rows update_tutor_rating aggregates:
\* WHERE Feedback.tutor_id == tutor_id AND Feedback.rating IS NOT NULL
RatedFeedbacks(tutor_id) ==
    {f \in feedbacks : f.tutor_id = tutor_id /\ f.rating # Null}

RECURSIVE SumOfRatings(_)
SumOfRatings(S) ==
    IF S = {} THEN 0
    ELSE LET f == CHOOSE f \in S : TRUE
         IN  f.rating + SumOfRatings(S \ {f})

\* select(func.avg(Feedback.rating), func.count(Feedback.id)): the average as
\* the exact quotient sum / count; count = 0 stands for avg = NULL
AvgAndCount(tutor_id) ==
    [sum |-> SumOfRatings(RatedFeedbacks(tutor_id)),
     count |-> Cardinality(RatedFeedbacks(tutor_id))]

\* a rounding that cuts the digits after the second decimal
Round2_truncating(sum, count) == (100 * sum) \div count

\* round(float(avg_rating), 2) in hundredths: the nearest hundredth, a tie
\* going to the even one
Round2(sum, count) ==
    LET q == (100 * sum) \div count
        r == (100 * sum) % count
    IN  IF 2 * r > count THEN q + 1
        ELSE IF 2 * r < count THEN q
        ELSE IF q % 2 = 0 THEN q ELSE q + 1

\* round(float(avg_rating), 2) if avg_rating else 0.0
NewRating(avg) == IF avg.count > 0 /\ avg.sum # 0 THEN Round2(avg.sum, avg.count) ELSE 0

\* total_feedbacks or 0
NewTotal(avg) == avg.count

\* the float assigned to tutor.rating compares equal to the Decimal loaded
\* from the DECIMAL(3,2) column: same value, and a value a float holds exactly
SameAsLoaded(new, old) == new = old /\ new % 25 = 0

\* the bound on the feedback requests the model starts
MayFeedback(max) ==
    nextFeedbackId + Cardinality({q \in Writers : wr[q].op \in {"detailed", "quick"}
                                                  /\ wr[q].pc = "insert"}) <= max

Feedback(id, chat_id, user_id, tutor_id, message_id, feedback_type, r, quick_reaction, allow_training, created_at) ==
    [id |-> id, chat_id |-> chat_id, user_id |-> user_id, tutor_id |-> tutor_id,
     message_id |-> message_id, feedback_type |-> feedback_type, rating |-> r,
     quick_reaction |-> quick_reaction, allow_training |-> allow_training,
     processed |-> FALSE, created_at |-> created_at]

\* messages.id values a feedback row may name: message_id is a foreign key
MessageExists(message_id) == \E m \in messages : m.id = message_id

\* create_detailed_feedback: the session begins its transaction at time t
\* and selects the chat (404 if it is not the user's)
create_detailed_feedback_check(p, u, c, message_id, r, allow_training, t) ==
    /\ Free(p)
    /\ IF ~ChatFound(c, u)
       THEN /\ wr' = [wr EXCEPT ![p] = [IdleWriter EXCEPT
                      !.pc = "done", !.op = "detailed", !.status = 404]]
            /\ now' = now
       ELSE /\ t \in {now, now + 1}
            /\ now' = t
            /\ wr' = [wr EXCEPT ![p] = [IdleWriter EXCEPT
                      !.pc = "insert", !.op = "detailed", !.chat = c, !.user = u,
                      !.tutor = chats[c].tutor_id, !.message_id = message_id,
                      !.rating = r, !.allow_training = allow_training,
                      !.txn = t]]
    /\ rd' = IdleReader
    /\ UNCHANGED <<messages, nextId, chats, clears>>
    /\ UNCHANGED chat_feedback_vars

\* create_quick_feedback: the session begins its transaction at time t and
\* selects the chat (404 if it is not the user's)
create_quick_feedback_check(p, u, c, message_id, t) ==
    /\ Free(p)
    /\ IF ~ChatFound(c, u)
       THEN /\ wr' = [wr EXCEPT ![p] = [IdleWriter EXCEPT
                      !.pc = "done", !.op = "quick", !.status = 404]]
            /\ now' = now
       ELSE /\ t \in {now, now + 1}
            /\ now' = t
            /\ wr' = [wr EXCEPT ![p] = [IdleWriter EXCEPT
                      !.pc = "insert", !.op = "quick", !.chat = c, !.user = u,
                      !.tutor = chats[c].tutor_id, !.message_id = message_id,
                      !.rating = Null, !.allow_training = TRUE, !.txn = t]]
    /\ rd' = IdleReader
    /\ UNCHANGED <<messages, nextId, chats, clears>>
    /\ UNCHANGED chat_feedback_vars

\* a create_detailed_feedback that recomputes the rating after every feedback
create_feedback_insert_always_rates(p) ==
    /\ wr[p].pc = "insert" /\ wr[p].op \in {"detailed", "quick"}
    /\ nextFeedbackId' = nextFeedbackId + 1
    /\ IF \/ wr[p].chat \notin DOMAIN chats
          \/ wr[p].message_id # Null /\ ~MessageExists(wr[p].message_id)
       THEN /\ wr' = [wr EXCEPT ![p] = [IdleWriter EXCEPT
                      !.pc = "done", !.op = wr[p].op, !.status = 500]]
            /\ UNCHANGED feedbacks
       ELSE /\ feedbacks' = feedbacks \cup
                 {Feedback(nextFeedbackId, wr[p].chat, wr[p].user, wr[p].tutor,
                           wr[p].message_id,
                           IF wr[p].op = "quick" THEN "quick_reaction" ELSE "detailed",
                           wr[p].rating,
                           IF wr[p].op = "quick" THEN "helpful" ELSE "",
                           wr[p].allow_training, wr[p].txn)}
            /\ wr' = [wr EXCEPT ![p].fid = nextFeedbackId, ![p].txn = 0,
                                ![p].pc = IF wr[p].op = "detailed"
                                          THEN "tutor" ELSE "mark"]
    /\ rd' = IdleReader
    /\ UNCHANGED <<messages, nextId, now, chats, clears, nextChatId,
                   rating, total_feedbacks>>

\* db.add(new_feedback); commit; refresh.  A chat deleted meanwhile or a
\* message_id that names no message violates a foreign key (HTTP 500).  Then
\* `if feedback_data.rating:` chooses between the recompute and the marking
create_feedback_insert(p) ==
    /\ wr[p].pc = "insert" /\ wr[p].op \in {"detailed", "quick"}
    /\ nextFeedbackId' = nextFeedbackId + 1
    /\ IF \/ wr[p].chat \notin DOMAIN chats
          \/ wr[p].message_id # Null /\ ~MessageExists(wr[p].message_id)
       THEN /\ wr' = [wr EXCEPT ![p] = [IdleWriter EXCEPT
                      !.pc = "done", !.op = wr[p].op, !.status = 500]]
            /\ UNCHANGED feedbacks
       ELSE /\ feedbacks' = feedbacks \cup
                 {Feedback(nextFeedbackId, wr[p].chat, wr[p].user, wr[p].tutor,
                           wr[p].message_id,
                           IF wr[p].op = "quick" THEN "quick_reaction" ELSE "detailed",
                           wr[p].rating,
                           IF wr[p].op = "quick" THEN "helpful" ELSE "",
                           wr[p].allow_training, wr[p].txn)}
            /\ wr' = [wr EXCEPT ![p].fid = nextFeedbackId, ![p].txn = 0,
                                ![p].pc = IF wr[p].op = "detailed" /\ wr[p].rating # 0
                                          THEN "tutor" ELSE "mark"]
    /\ rd' = IdleReader
    /\ UNCHANGED <<messages, nextId, now, chats, clears, nextChatId,
                   rating, total_feedbacks>>

\* update_tutor_rating: select(Tutor); return if there is none
update_tutor_rating_tutor(p) ==
    /\ wr[p].pc = "tutor" /\ wr[p].op = "detailed"
    /\ IF wr[p].tutor \notin DOMAIN Tutors
       THEN wr' = [wr EXCEPT ![p].pc = "mark"]
       ELSE wr' = [wr EXCEPT ![p].pc = "avg",
                   ![p].loaded = [rating |-> rating[wr[p].tutor],
                                  total_feedbacks |-> total_feedbacks[wr[p].tutor]]]
    /\ rd' = IdleReader
    /\ UNCHANGED <<messages, nextId, now, chats, clears>>
    /\ UNCHANGED chat_feedback_vars

\* update_tutor_rating: select avg(rating), count(id) of the rated feedback
update_tutor_rating_avg(p) ==
    /\ wr[p].pc = "avg" /\ wr[p].op = "detailed"
    /\ wr' = [wr EXCEPT ![p].pc = "rate", ![p].avg = AvgAndCount(wr[p].tutor)]
    /\ rd' = IdleReader
    /\ UNCHANGED <<messages, nextId, now, chats, clears>>
    /\ UNCHANGED chat_feedback_vars

\* update_tutor_rating: tutor.rating = ...; tutor.total_feedbacks = ...;
\* commit.  The flush writes the columns whose new value differs from the
\* value loaded by select(Tutor)
update_tutor_rating_commit(p) ==
    /\ wr[p].pc = "rate" /\ wr[p].op = "detailed"
    /\ rating' = [rating EXCEPT ![wr[p].tutor] =
                    IF SameAsLoaded(NewRating(wr[p].avg), wr[p].loaded.rating)
                    THEN @ ELSE NewRating(wr[p].avg)]
    /\ total_feedbacks' = [total_feedbacks EXCEPT ![wr[p].tutor] =
                    IF NewTotal(wr[p].avg) = wr[p].loaded.total_feedbacks
                    THEN @ ELSE NewTotal(wr[p].avg)]
    /\ wr' = [wr EXCEPT ![p].pc = "mark", ![p].avg = IdleWriter.avg,
                        ![p].loaded = IdleWriter.loaded]
    /\ rd' = IdleReader
    /\ UNCHANGED <<messages, nextId, now, chats, clears, nextChatId,
                   feedbacks, nextFeedbackId>>

\* mark_feedback_for_training: select(Feedback) yields the object the session
\* already holds (processed = False since the refresh; expire_on_commit is
\* off), `feedback.processed = False` changes nothing and the commit writes
\* nothing; the handler returns the feedback (201)
mark_feedback_for_training(p) ==
    /\ wr[p].pc = "mark" /\ wr[p].op \in {"detailed", "quick"}
    /\ wr' = [wr EXCEPT ![p] = [IdleWriter EXCEPT
                !.pc = "done", !.op = wr[p].op, !.status = 201,
                !.fid = wr[p].fid, !.tutor = wr[p].tutor, !.rating = wr[p].rating]]
    /\ rd' = IdleReader
    /\ UNCHANGED <<messages, nextId, now, chats, clears>>
    /\ UNCHANGED chat_feedback_vars

\* WHERE Feedback.processed == False AND Feedback.allow_training == True
Unprocessed == {f \in feedbacks : ~f.processed /\ f.allow_training}

\* a get_unprocessed_feedbacks that filters on allow_training alone
get_unprocessed_feedbacks_all(p, limit) ==
    /\ Free(p)
    /\ \E q \in OrderByCreatedAt({f \in feedbacks : f.allow_training}) :
         wr' = [wr EXCEPT ![p] = [IdleWriter EXCEPT
                  !.pc = "done", !.op = "unprocessed", !.status = 200,
                  !.ret = limit, !.list = Take(q, limit)]]
    /\ rd' = IdleReader
    /\ UNCHANGED chat_feedback_vars
    /\ UNCHANGED <<messages, nextId, now, chats, clears>>

\* get_unprocessed_feedbacks: select(Feedback).where(...)
\* .order_by(Feedback.created_at).limit(limit)
get_unprocessed_feedbacks(p, limit) ==
    /\ Free(p)
    /\ \E q \in OrderByCreatedAt(Unprocessed) :
         wr' = [wr EXCEPT ![p] = [IdleWriter EXCEPT
                  !.pc = "done", !.op = "unprocessed", !.status = 200,
                  !.ret = limit, !.list = Take(q, limit)]]
    /\ rd' = IdleReader
    /\ UNCHANGED chat_feedback_vars
    /\ UNCHANGED <<messages, nextId, now, chats, clears>>

\* a mark_feedback_as_processed that flips the flag
mark_feedback_as_processed_toggling(p, feedback_id) ==
    /\ Free(p)
    /\ IF \A f \in feedbacks : f.id # feedback_id
       THEN /\ wr' = [wr EXCEPT ![p] = [IdleWriter EXCEPT
                      !.pc = "done", !.op = "processed", !.status = 404]]
            /\ UNCHANGED feedbacks
       ELSE /\ feedbacks' = {IF f.id = feedback_id
                              THEN [f EXCEPT !.processed = ~f.processed]
                              ELSE f : f \in feedbacks}
            /\ wr' = [wr EXCEPT ![p] = [IdleWriter EXCEPT
                      !.pc = "done", !.op = "processed", !.status = 200,
                      !.fid = feedback_id]]
    /\ rd' = IdleReader
    /\ UNCHANGED <<messages, nextId, now, chats, clears, nextChatId,
                   nextFeedbackId, rating, total_feedbacks>>

\* mark_feedback_as_processed: select(Feedback) by id (404 if there is none);
\* feedback.processed = True; commit
mark_feedback_as_processed(p, feedback_id) ==
    /\ Free(p)
    /\ IF \A f \in feedbacks : f.id # feedback_id
       THEN /\ wr' = [wr EXCEPT ![p] = [IdleWriter EXCEPT
                      !.pc = "done", !.op = "processed", !.status = 404]]
            /\ UNCHANGED feedbacks
       ELSE /\ feedbacks' = {IF f.id = feedback_id
                              THEN [f EXCEPT !.processed = TRUE]
                              ELSE f : f \in feedbacks}
            /\ wr' = [wr EXCEPT ![p] = [IdleWriter EXCEPT
                      !.pc = "done", !.op = "processed", !.status = 200,
                      !.fid = feedback_id]]
    /\ rd' = IdleReader
    /\ UNCHANGED <<messages, nextId, now, chats, clears, nextChatId,
                   nextFeedbackId, rating, total_feedbacks>>

----------------------------------------------------------------------------
(* get_chat_messages *)

\* `if before_id:` - None and 0 are both falsy
Truthy(before) == before.given /\ before.id # 0

\* the rows the window query ranges over
WindowRows(c, before) ==
    {m \in ChatMessages(c) : Truthy(before) => m.id < before.id}

\* a window query that asks for `limit` rows only
FetchCount_no_extra(limit) == limit

\* .limit(limit + 1)
FetchCount(limit) == limit + 1

\* every (messages, has_more) the handler may compute: the window query, the
\* has_more test, the cut to `limit` rows and the reversal
Window(c, limit, before) ==
    {LET fetched == Take(q, FetchCount(limit))
         has_more == Len(fetched) > limit
     IN  [messages |-> Reverse(IF has_more THEN Take(fetched, limit) ELSE fetched),
          has_more |-> has_more]
     : q \in OrderByCreatedAtDesc(WindowRows(c, before))}

\* a count over the whole messages table
Total_all_chats(c) == Cardinality(messages)

\* select(func.count()).select_from(Message).where(Message.chat_id == chat_id)
Total(c) == Cardinality(ChatMessages(c))

\* the request continues the backward walk of the previous response: same
\* chat and page size, before_id = id of the first (oldest) message returned
ContinuesWalk(u, c, limit, before) ==
    /\ rd.walk = "open"
    /\ rd.user = u /\ rd.chat = c /\ rd.limit = limit
    /\ before.given /\ before.id = rd.messages[1].id

get_chat_messages(u, c, limit, before) ==
    /\ IF ~ChatFound(c, u)
       THEN rd' = [IdleReader EXCEPT !.status = 404]
       ELSE \E w \in Window(c, limit, before) :
            rd' = [status |-> 200, user |-> u, chat |-> c, limit |-> limit,
                   before |-> before, messages |-> w.messages,
                   has_more |-> w.has_more, total |-> Total(c),
                   walk |-> IF ~before.given \/ ContinuesWalk(u, c, limit, before)
                            THEN (IF w.has_more THEN "open" ELSE "closed")
                            ELSE "none",
                   acc |-> IF ~before.given THEN w.messages
                           ELSE IF ContinuesWalk(u, c, limit, before)
                           THEN w.messages \o rd.acc
                           ELSE <<>>]
    /\ UNCHANGED <<messages, nextId, now, chats, clears, wr>>
    /\ UNCHANGED chat_feedback_vars

----------------------------------------------------------------------------
(* Specifications *)

Timeouts == {up \in Upstream : up.kind \in {"ok", "timeout"}}
Answers == {up \in Upstream : up.kind = "ok"}

Limits == 1..MaxLimit
BeforeIds == {NoBefore} \cup {Before(i) : i \in 0..(MaxId + 1)}

\* concurrent send_message and clear_chat_messages requests
Next ==
    \/ \E p \in Writers, u \in Users, c \in ChatIds, content \in Contents,
          t \in {now, now + 1} :
         FirstFree(p) /\ MaySend(c, MaxId) /\ send_message_check(p, u, c, content, t)
    \/ \E p \in Writers : send_message_store(p)
    \/ \E p \in Writers, t \in {now, now + 1} : send_message_refresh(p, t)
    \/ \E p \in Writers : send_message_history(p)
    \/ \E p \in Writers, up \in Upstream : send_message_inference(p, up)
    \/ \E p \in Writers, t \in {now, now + 1} : send_message_persist(p, t)
    \/ \E p \in Writers, u \in Users, c \in ChatIds :
         FirstFree(p) /\ MayClear /\ clear_chat_messages_delete(p, u, c)
    \/ \E p \in Writers : clear_chat_messages_commit(p)

Spec == Init /\ [][Next]_vars

\* concurrent send_message requests, and the get_chat_messages requests of
\* user 1 on what they stored
NextRead ==
    \/ \E p \in Writers, u \in Users, c \in ChatIds, content \in Contents,
          t \in {now, now + 1} :
         FirstFree(p) /\ MaySend(c, MaxId) /\ send_message_check(p, u, c, content, t)
    \/ \E p \in Writers : send_message_store(p)
    \/ \E p \in Writers, t \in {now, now + 1} : send_message_refresh(p, t)
    \/ \E p \in Writers : send_message_history(p)
    \/ \E p \in Writers, up \in Answers : send_message_inference(p, up)
    \/ \E p \in Writers, t \in {now, now + 1} : send_message_persist(p, t)
    \/ \E c \in ChatIds, limit \in Limits, before \in BeforeIds :
         get_chat_messages(1, c, limit, before)

SpecRead == Init /\ [][NextRead]_vars

\* one client sending to chat 1, one request after the other, until the chat
\* is longer than the history query's limit
NextLong ==
    \/ \E content \in Contents :
         MaySend(1, MaxLongId) /\ send_message_check(1, 1, 1, content, now + 1)
    \/ send_message_store(1)
    \/ send_message_refresh(1, now + 1)
    \/ send_message_history(1)
    \/ \E up \in Timeouts : send_message_inference(1, up)
    \/ send_message_persist(1, now + 1)

SpecLong == Init /\ [][NextLong]_vars

\* the owners of chats 1 and 2 sending in turn, one request after the other:
\* histories of every length up to the query's limit, for either tutor
NextPrompt ==
    \/ \E c \in {1, 2}, content \in Contents :
         /\ Reserved + 2 <= MaxLongId
         /\ send_message_check(1, chats[c].user_id, c, content, now + 1)
    \/ send_message_store(1)
    \/ send_message_refresh(1, now + 1)
    \/ send_message_history(1)
    \/ \E up \in Answers : send_message_inference(1, up)
    \/ send_message_persist(1, now + 1)

SpecPrompt == Init /\ [][NextPrompt]_vars

\* the steps a send_message request in flight takes on its own: the event
\* loop resumes every coroutine whose await has completed, and the upstream
\* call ends by an answer or by its timeout
send_message_continue(p) ==
    \/ send_message_store(p)
    \/ \E t \in {now, now + 1} : send_message_refresh(p, t)
    \/ send_message_history(p)
    \/ \E up \in Timeouts : send_message_inference(p, up)
    \/ \E t \in {now, now + 1} : send_message_persist(p, t)

\* concurrent send_message requests alone
NextPair ==
    \/ \E p \in Writers, u \in Users, c \in ChatIds, content \in Contents,
          t \in {now, now + 1} :
         FirstFree(p) /\ MaySend(c, MaxId) /\ send_message_check(p, u, c, content, t)
    \/ \E p \in Writers : send_message_continue(p)

SpecPair ==
    Init /\ [][NextPair]_vars /\ \A p \in Writers : WF_vars(send_message_continue(p))

\* Optional[int] = Field(None, ge=1, le=5): no rating, or some of the stars
Ratings == {Null, 1, 4, 5}
\* message_id of a feedback: none, or the id of the first message stored
FeedbackMessageIds == {Null, 1}

\* detailed feedback of the owners of chats 1 and 2, one request at a time
NextRating ==
    \/ \E u \in Users, c \in ChatIds, r \in Ratings, allow_training \in BOOLEAN :
         MayFeedback(MaxFeedbacks)
         /\ create_detailed_feedback_check(1, u, c, Null, r, allow_training, now)
    \/ create_feedback_insert(1)
    \/ update_tutor_rating_tutor(1)
    \/ update_tutor_rating_avg(1)
    \/ update_tutor_rating_commit(1)
    \/ mark_feedback_for_training(1)

SpecRating == Init /\ [][NextRating]_vars

\* one client at a time: every handler runs to its end before the next
\* request begins
NextSeq ==
    \/ \E u \in Users, c \in ChatIds, content \in Contents :
         MaySend(c, MaxSeqId) /\ send_message_check(1, u, c, content, now + 1)
    \/ send_message_store(1)
    \/ send_message_refresh(1, now + 1)
    \/ send_message_history(1)
    \/ \E up \in Answers : send_message_inference(1, up)
    \/ send_message_persist(1, now + 1)
    \/ \E u \in Users, c \in ChatIds :
         MayClear /\ clear_chat_messages_delete(1, u, c)
    \/ clear_chat_messages_commit(1)
    \/ \E u \in Users, c \in ChatIds : delete_chat(1, u, c)
    \/ \E u \in Users, c \in ChatIds, message_id \in FeedbackMessageIds,
          r \in {Null, 4, 5} :
         MayFeedback(MaxSeqFeedbacks)
         /\ create_detailed_feedback_check(1, u, c, message_id, r, TRUE, now)
    \/ \E u \in Users, c \in ChatIds, message_id \in FeedbackMessageIds :
         MayFeedback(MaxSeqFeedbacks) /\ create_quick_feedback_check(1, u, c, message_id, now)
    \/ create_feedback_insert(1)
    \/ update_tutor_rating_tutor(1)
    \/ update_tutor_rating_avg(1)
    \/ update_tutor_rating_commit(1)
    \/ mark_feedback_for_training(1)

SpecSeq == Init /\ [][NextSeq]_vars

\* custom_name of ChatUpdate: absent, or a new name
CustomNames == {NoName, Name("n1")}

\* limit of get_unprocessed_feedbacks: a small page, and the default
ExportLimits == {1, 100}

\* user 1 calling, one request at a time, every handler of the chats, messages
\* and feedbacks routers for their chat 1, the foreign chat 2 and the missing
\* chat 3
NextAll ==
    \/ \E c \in ChatIds, content \in Contents :
         MaySend(c, MaxSeqId) /\ send_message_check(1, 1, c, content, now + 1)
    \/ send_message_store(1)
    \/ send_message_refresh(1, now + 1)
    \/ send_message_history(1)
    \/ \E up \in Answers : send_message_inference(1, up)
    \/ send_message_persist(1, now + 1)
    \/ \E c \in ChatIds : get_chat_messages(1, c, MaxLimit, NoBefore)
    \/ \E c \in ChatIds :
         MayClear /\ clear_chat_messages_delete(1, 1, c)
    \/ clear_chat_messages_commit(1)
    \/ \E tutor_id \in TutorIds :
         nextChatId <= MaxAllChats /\ create_chat_check(1, 1, tutor_id)
    \/ create_chat_insert(1)
    \/ \E c \in ChatIds, custom_name \in CustomNames :
         update_chat(1, 1, c, custom_name)
    \/ \E c \in ChatIds : delete_chat(1, 1, c)
    \/ \E c \in ChatIds, r \in {Null, 5} :
         MayFeedback(MaxAllFeedbacks)
         /\ create_detailed_feedback_check(1, 1, c, Null, r, TRUE, now)
    \/ \E c \in ChatIds :
         MayFeedback(MaxAllFeedbacks) /\ create_quick_feedback_check(1, 1, c, 1, now)
    \/ create_feedback_insert(1)
    \/ update_tutor_rating_tutor(1)
    \/ update_tutor_rating_avg(1)
    \/ update_tutor_rating_commit(1)
    \/ mark_feedback_for_training(1)
    \/ \E feedback_id \in 1..MaxAllFeedbacks : mark_feedback_as_processed(1, feedback_id)

SpecAll == Init /\ [][NextAll]_vars

\* one client at a time: feedback on chat 1 and its messages, the export of
\* the unprocessed feedback, and the clearing of the chat
NextExport ==
    \/ \E content \in Contents :
         MaySend(1, MaxSeqId) /\ send_message_check(1, 1, 1, content, now + 1)
    \/ send_message_store(1)
    \/ send_message_refresh(1, now + 1)
    \/ send_message_history(1)
    \/ \E up \in Answers : send_message_inference(1, up)
    \/ send_message_persist(1, now + 1)
    \/ MayClear /\ clear_chat_messages_delete(1, 1, 1)
    \/ clear_chat_messages_commit(1)
    \/ \E r \in {Null, 5}, allow_training \in BOOLEAN, t \in {now, now + 1} :
         MayFeedback(MaxExportFeedbacks)
         /\ create_detailed_feedback_check(1, 1, 1, Null, r, allow_training, t)
    \/ \E message_id \in FeedbackMessageIds \ {Null}, t \in {now, now + 1} :
         MayFeedback(MaxExportFeedbacks)
         /\ create_quick_feedback_check(1, 1, 1, message_id, t)
    \/ create_feedback_insert(1)
    \/ update_tutor_rating_tutor(1)
    \/ update_tutor_rating_avg(1)
    \/ update_tutor_rating_commit(1)
    \/ mark_feedback_for_training(1)
    \/ \E limit \in ExportLimits : get_unprocessed_feedbacks(1, limit)
    \/ \E feedback_id \in 1..(MaxExportFeedbacks + 1) :
         mark_feedback_as_processed(1, feedback_id)

SpecExport == Init /\ [][NextExport]_vars

\* concurrent create_detailed_feedback requests of the two users, each for
\* their own chat or a chat that is not theirs
NextRace ==
    \/ \E p \in Writers, u \in Users, c \in ChatIds, r \in {4, 5} :
         FirstFree(p) /\ MayFeedback(MaxFeedbacks)
         /\ create_detailed_feedback_check(p, u, c, Null, r, TRUE, now)
    \/ \E p \in Writers : create_feedback_insert(p)
    \/ \E p \in Writers : update_tutor_rating_tutor(p)
    \/ \E p \in Writers : update_tutor_rating_avg(p)
    \/ \E p \in Writers : update_tutor_rating_commit(p)
    \/ \E p \in Writers : mark_feedback_for_training(p)

SpecRace == Init /\ [][NextRace]_vars

\* concurrent create_chat and delete_chat requests
NextChats ==
    \/ \E p \in Writers, u \in Users, tutor_id \in TutorIds :
         FirstFree(p) /\ MayCreate /\ create_chat_check(p, u, tutor_id)
    \/ \E p \in Writers : create_chat_insert(p)
    \/ \E p \in Writers, u \in Users, c \in 1..MaxChats :
         FirstFree(p) /\ delete_chat(p, u, c)

SpecChats == Init /\ [][NextChats]_vars

----------------------------------------------------------------------------
(* Properties of send_message *)

Range(s) == {s[i] : i \in 1..Len(s)}

FailureKinds == {"timeout", "http_error", "transport_error"}

\* p is a send_message request whose inference call has returned
Answered(p) == wr[p].op = "send" /\ wr[p].pc \in {"persist", "done"}
               /\ wr[p].up.kind # "none"

\* no clear_chat_messages has committed on p's chat since p stored its message
NotCleared(p) == clears[wr[p].chat] = wr[p].epoch

\* the user message of request p is a row of its chat
UserMessageStored(p) ==
    \E m \in ChatMessages(wr[p].chat) :
        m.id = wr[p].uid /\ m.role = "user" /\ m.content = wr[p].content

\* a get_chat_messages of the whole chat returns the user message of p
UserMessageReturned(p) ==
    \A w \in Window(wr[p].chat, Total(wr[p].chat), NoBefore) :
        \E m \in Range(w.messages) : m.id = wr[p].uid

\* C1: when send_message is about to call the Inference Gateway its user
\* message is already committed, and after the call, whatever its outcome, the
\* message is still a row of the chat and get_chat_messages returns it (as
\* long as no clear_chat_messages removed the chat's messages meanwhile).
C1_UserMessageSurvivesInference ==
    \A p \in Writers :
        ( /\ wr[p].op = "send"
          /\ wr[p].pc = "inference" \/ Answered(p)
          /\ NotCleared(p) )
        => UserMessageStored(p) /\ UserMessageReturned(p)

C1_Witness ==
    \E p \in Writers :
        /\ wr[p].op = "send" /\ wr[p].pc = "done"
        /\ wr[p].up.kind = "timeout"
        /\ NotCleared(p)
        /\ UserMessageStored(p) /\ UserMessageReturned(p)

\* C2: a send_message whose inference call failed has created no assistant
\* message.
C2_NoAssistantMessageOnFailure ==
    \A p \in Writers :
        (Answered(p) /\ wr[p].pc = "done" /\ wr[p].up.kind \in FailureKinds)
        => wr[p].aid = 0

\* C3: the gateway's error tells the three failure categories apart, and a
\* send_message whose inference call failed does not answer with success.
C3_FailureReported ==
    /\ \A j, k \in FailureKinds :
           j # k => generate_response_error(j) # generate_response_error(k)
    /\ \A p \in Writers :
           (Answered(p) /\ wr[p].pc = "done" /\ wr[p].up.kind \in FailureKinds)
           => wr[p].status # 200

\* the rows request p inserted
Inserted(p) == {m \in messages : m.id \in {wr[p].uid, wr[p].aid}}

----------------------------------------------------------------------------
(* Properties of get_chat_messages *)

\* a is older than b: creation timestamp, ties broken by id
Older(a, b) ==
    \/ a.created_at < b.created_at
    \/ a.created_at = b.created_at /\ a.id < b.id

\* the rows of S not older, by created_at, than any row of S left out
MostRecentOf(page, S) ==
    /\ Range(page) \subseteq S
    /\ \A i, j \in 1..Len(page) : i # j => page[i] # page[j]
    /\ \A m \in Range(page) : \A o \in S \ Range(page) : o.created_at <= m.created_at

\* s is delivered oldest-first
OldestFirst(s) == \A i, j \in 1..Len(s) : i < j => s[i].created_at <= s[j].created_at

\* C5: a complete backward walk (first page without before_id, then before_id
\* = id of the oldest message of the previous page, until has_more is false)
\* yields, older page first, every message of the chat exactly once in
\* strictly oldest-to-newest order (created_at, ties broken by id).
C5_WalkYieldsEveryMessageInOrder ==
    rd.walk = "closed" =>
        /\ Len(rd.acc) = Cardinality(ChatMessages(rd.chat))
        /\ Range(rd.acc) = ChatMessages(rd.chat)
        /\ \A i, j \in 1..Len(rd.acc) : i < j => Older(rd.acc[i], rd.acc[j])

\* C6: for a non-empty page, has_more is true iff the chat has a message whose
\* id is less than the id of the oldest message of the page.
C6_HasMoreIffOlderIdExists ==
    (rd.status = 200 /\ Len(rd.messages) > 0) =>
        (rd.has_more <=> \E m \in ChatMessages(rd.chat) : m.id < rd.messages[1].id)

\* C7: with a before_id, every returned message has id < before_id, and the
\* page is the most recent `limit` such messages of the chat.
C7_BeforeIdBoundsThePage ==
    (rd.status = 200 /\ rd.before.given) =>
        LET S == {m \in ChatMessages(rd.chat) : m.id < rd.before.id}
        IN  /\ \A m \in Range(rd.messages) : m.id < rd.before.id
            /\ Len(rd.messages) = Min(rd.limit, Cardinality(S))
            /\ MostRecentOf(rd.messages, S)

C9_TotalCountsTheChat ==
    rd.status = 200 =>
        /\ rd.total = Cardinality(ChatMessages(rd.chat))
        /\ ChatMessages(rd.chat) = {} =>
             rd.messages = <<>> /\ ~rd.has_more /\ rd.total = 0

C9_Witness ==
    /\ rd.status = 200 /\ rd.before.given
    /\ rd.total > Len(rd.messages)
    /\ Len(rd.messages) > 0
    /\ \E m \in messages : m.chat_id # rd.chat

----------------------------------------------------------------------------
(* Properties of the prompt *)

\* C10: the prompt handed to the inference call holds the system entry, at
\* most 10 history entries, and the new user message.
C10_WindowBound ==
    \A p \in Writers :
        (wr[p].op = "send" /\ wr[p].pc = "persist") =>
            LET prompt == wr[p].prompt
            IN  /\ Len(prompt) >= 2
                /\ prompt[1].role = "system"
                /\ prompt[Len(prompt)] = [role |-> "user", content |-> wr[p].content]
                /\ Len(prompt) - 2 <= MaxMessages

C10_Witness ==
    \E p \in Writers :
        /\ wr[p].op = "send" /\ wr[p].pc = "persist"
        /\ Cardinality(ChatMessages(wr[p].chat)) > HistoryLimit
        /\ Len(wr[p].prompt) - 2 = MaxMessages

\* the rows of the history query that _format_message_history keeps
IncludedRows(p) ==
    LET h == wr[p].history
        n == Len(format_message_history(h, MaxMessages))
    IN  SubSeq(h, Len(h) - n + 1, Len(h))

\* C11: the history entries placed in the prompt are the most recent messages
\* of the chat in chronological order: no stored message newer than an
\* included one is left out (the request's own user message, which the prompt
\* carries as its final entry, is not counted as left out).
C11_HistoryIsMostRecent ==
    \A p \in Writers :
        (wr[p].op = "send" /\ wr[p].pc = "inference") =>
            LET inc == IncludedRows(p)
            IN  /\ \A i, j \in 1..Len(inc) : i < j => Older(inc[i], inc[j])
                /\ \A m \in Range(inc) : \A o \in ChatMessages(wr[p].chat) :
                       (o.id # wr[p].uid /\ Older(m, o)) => o \in Range(inc)

\* C12: a send_message to a chat without messages submits the prompt
\* [system, user]: two entries, the new user message once, as the last one.
C12_EmptyHistoryPrompt ==
    \A p \in Writers :
        ( /\ wr[p].op = "send" /\ wr[p].pc = "persist"
          /\ \A m \in ChatMessages(wr[p].chat) : m.id = wr[p].uid )
        => LET prompt == wr[p].prompt
           IN  /\ Len(prompt) = 2
               /\ prompt[1].role = "system"
               /\ prompt[2] = [role |-> "user", content |-> wr[p].content]

----------------------------------------------------------------------------
(* Properties of the reply's unit of work *)

\* the assistant rows a step adds to chat c
NewReplies(c) ==
    {m \in messages' \ messages : m.chat_id = c /\ m.role = "assistant"}

\* C13: the assistant reply and the chat's last_message_at become visible in
\* one commit: a step that adds an assistant message to a chat writes the
\* time of that commit to the chat's last_message_at, and a step that writes
\* a new time to last_message_at adds an assistant message to that chat.
C13_ReplyAndLastMessageAtTogether ==
    [][\A c \in DOMAIN chats :
          /\ NewReplies(c) # {} =>
                 /\ c \in DOMAIN chats'
                 /\ chats'[c].last_message_at # Null
                 /\ chats'[c].last_message_at = now'
          /\ ( /\ c \in DOMAIN chats'
               /\ chats'[c].last_message_at # chats[c].last_message_at
               /\ chats'[c].last_message_at # Null )
             => NewReplies(c) # {}]_vars

C13_Witness ==
    \E p \in Writers :
        /\ wr[p].op = "send" /\ wr[p].pc = "done" /\ wr[p].status = 200
        /\ \E q \in Writers : q # p /\ wr[q].op = "send" /\ wr[q].pc = "persist"
                              /\ wr[q].chat = wr[p].chat
        /\ \E m \in ChatMessages(wr[p].chat) : m.id = wr[p].aid
        /\ chats[wr[p].chat].last_message_at # Null

\* C14: after a successful send_message the chat's last_message_at equals the
\* created_at of the assistant message the call persisted.
C14_LastMessageAtIsReplyCreatedAt ==
    \A p \in Writers :
        (wr[p].op = "send" /\ wr[p].pc = "done" /\ wr[p].status = 200) =>
            \E m \in ChatMessages(wr[p].chat) :
                /\ m.id = wr[p].aid
                /\ chats[wr[p].chat].last_message_at = m.created_at

----------------------------------------------------------------------------
(* Properties of the tutor's rating *)

\* h hundredths is the mean of the ratings of S rounded to two decimals: no
\* other number of hundredths is nearer to it
IsMeanRounded(h, S) ==
    LET n == Cardinality(S)
        d == 100 * SumOfRatings(S) - h * n
    IN  n > 0 /\ 2 * d <= n /\ -2 * d <= n

\* the stored aggregates of tutor t are those of its rated feedback rows
AggregatesMatch(t) ==
    IF RatedFeedbacks(t) = {}
    THEN rating[t] = 0 /\ total_feedbacks[t] = 0
    ELSE /\ total_feedbacks[t] = Cardinality(RatedFeedbacks(t))
         /\ IsMeanRounded(rating[t], RatedFeedbacks(t))

\* the ratings of tutor t are 5, 5 and 4
FiveFiveFour(t) ==
    /\ Cardinality(RatedFeedbacks(t)) = 3
    /\ Cardinality({f \in RatedFeedbacks(t) : f.rating = 5}) = 2
    /\ Cardinality({f \in RatedFeedbacks(t) : f.rating = 4}) = 1

\* p is a create_detailed_feedback with a rating that has answered
RatedFeedbackDone(p) ==
    wr[p].op = "detailed" /\ wr[p].pc = "done" /\ wr[p].status = 201
    /\ wr[p].rating # Null

\* C15: after a detailed feedback with a rating is created for a tutor, the
\* tutor's rating is the mean of all its non-null ratings rounded to two
\* decimals and total_feedbacks is their number ([5,5,4] gives 4.67 and 3); a
\* recompute that finds no rated feedback yields rating 0.0 and total 0.
C15_RatingIsRoundedMean ==
    /\ \A p \in Writers :
         RatedFeedbackDone(p) =>
            /\ RatedFeedbacks(wr[p].tutor) # {}
            /\ AggregatesMatch(wr[p].tutor)
            /\ FiveFiveFour(wr[p].tutor) =>
                 rating[wr[p].tutor] = 467 /\ total_feedbacks[wr[p].tutor] = 3
    /\ NewRating([sum |-> 0, count |-> 0]) = 0
    /\ NewTotal([sum |-> 0, count |-> 0]) = 0

C15_Witness ==
    \E p \in Writers :
        /\ RatedFeedbackDone(p)
        /\ FiveFiveFour(wr[p].tutor)
        /\ rating[wr[p].tutor] = 467

----------------------------------------------------------------------------
(* Properties of create_chat and delete_chat *)

C18_OneChatPerPair ==
    \A c, d \in DOMAIN chats :
        (chats[c].user_id = chats[d].user_id /\ chats[c].tutor_id = chats[d].tutor_id)
        => c = d

C18_Witness ==
    \E p, q \in Writers :
        /\ wr[p].op = "create_chat" /\ wr[p].pc = "done" /\ wr[p].status = 201
        /\ wr[q].op = "create_chat" /\ wr[q].pc = "done" /\ wr[q].status = 500
        /\ wr[p].user = wr[q].user /\ wr[p].tutor = wr[q].tutor
        /\ ChatsOf(wr[p].user, wr[p].tutor) = {wr[p].ret}

\* C19: a delete_chat by the chat's owner succeeds, whatever messages and
\* feedback the chat has; it removes the chat, its messages and its feedback
\* rows, and leaves every other chat, message and feedback row as it was.
C19_DeleteChatRemovesAll ==
    [][\A p \in Writers :
          ( /\ Free(p) /\ wr'[p] # wr[p]
            /\ wr'[p].op = "delete_chat" /\ wr'[p].status # 404 )
          => LET c == wr'[p].chat
             IN  /\ wr'[p].status = 204
                 /\ chats' = [d \in DOMAIN chats \ {c} |-> chats[d]]
                 /\ messages' = messages \ ChatMessages(c)
                 /\ feedbacks' = feedbacks \ ChatFeedbacks(c)]_vars

----------------------------------------------------------------------------
(* Properties of clear_chat_messages *)

\* request p is the only one at work on its chat since its delete statement:
\* no other request on the chat is in flight, and none has added a row to it
Alone(p) ==
    /\ \A q \in Writers \ {p} : Free(q) \/ wr[q].chat # wr[p].chat
    /\ {m.id : m \in ChatMessages(wr[p].chat)} = wr[p].del

\* C20: when a clear_chat_messages completes with no other request on the
\* chat in flight, the chat has no messages and a null last_message_at; the
\* chat row itself and the messages and rows of all other chats are unchanged.
C20_ClearEmptiesTheChatOnly ==
    [][\A p \in Writers :
          ( /\ wr[p].op = "clear" /\ wr[p].pc = "commit" /\ wr'[p].pc = "done"
            /\ Alone(p) )
          => LET c == wr[p].chat
             IN  /\ {m \in messages' : m.chat_id = c} = {}
                 /\ DOMAIN chats' = DOMAIN chats
                 /\ chats'[c] = [chats[c] EXCEPT !.last_message_at = Null]
                 /\ \A d \in DOMAIN chats \ {c} : chats'[d] = chats[d]
                 /\ {m \in messages' : m.chat_id # c}
                      = {m \in messages : m.chat_id # c}]_vars

C20_Witness ==
    \E p \in Writers :
        /\ wr[p].op = "clear" /\ wr[p].pc = "done" /\ wr[p].status = 204
        /\ ChatMessages(wr[p].chat) = {}
        /\ chats[wr[p].chat].last_message_at = Null
        /\ Cardinality(messages) < nextId - 1
        /\ \E d \in DOMAIN chats :
               d # wr[p].chat /\ ChatMessages(d) # {} /\ chats[d].last_message_at # Null

----------------------------------------------------------------------------
(* Properties of the Context Builder *)

\* C24: for tutor, history h and user message u the prompt is one system
\* entry (the stored system prompt, or the default naming the tutor when the
\* stored one is empty), then the last min(|h|, 10) entries of h in their
\* order with role and content unchanged, then {role: user, content: u}:
\* 1 + min(|h|, 10) + 1 entries, and no second system entry.
C24_PromptStructure ==
    [][\A p \in Writers :
          (wr[p].op = "send" /\ wr[p].pc = "inference" /\ wr'[p].pc = "persist")
          => LET h == wr[p].history
                 k == Min(Len(h), 10)
                 tutor == Tutors[wr[p].tutor]
                 prompt == wr'[p].prompt
             IN  /\ Len(prompt) = 1 + k + 1
                 /\ prompt[1].role = "system"
                 /\ prompt[1].content = IF tutor.system_prompt # ""
                                        THEN tutor.system_prompt
                                        ELSE FallbackPrompt(tutor.name)
                 /\ prompt[1].content # ""
                 /\ \A i \in 1..k :
                        /\ prompt[1 + i].role = h[Len(h) - k + i].role
                        /\ prompt[1 + i].content = h[Len(h) - k + i].content
                 /\ prompt[Len(prompt)] = [role |-> "user", content |-> wr[p].content]
                 /\ \A i \in 2..Len(prompt) : prompt[i].role # "system"]_vars

C24_Witness ==
    \E p \in Writers :
        /\ wr[p].op = "send" /\ wr[p].pc = "persist"
        /\ Tutors[wr[p].tutor].system_prompt = ""
        /\ wr[p].prompt[1].content = FallbackPrompt(Tutors[wr[p].tutor].name)
        /\ Len(wr[p].prompt) = 12
        /\ Cardinality(ChatMessages(wr[p].chat)) > 10

----------------------------------------------------------------------------
(* Properties of the message rows under concurrency *)

\* C27: within one chat a message inserted later has a greater id and a
\* created_at that is not earlier than that of every message inserted before
\* it (concurrent send_message requests included); every role is "user" or
\* "assistant"; only clear_chat_messages and delete_chat change or remove an
\* existing message.
C27_InsertionOrder ==
    [][/\ \A m2 \in messages' \ messages : \A m1 \in ChatMessages(m2.chat_id) :
              /\ m1.id < m2.id
              /\ m1.created_at <= m2.created_at
       /\ \A m \in messages' : m.role \in {"user", "assistant"}
       /\ (messages \ messages' # {})
          => \E p \in Writers :
                /\ wr[p].op \in {"clear", "delete_chat"} /\ wr'[p].pc = "done"
                /\ wr[p].pc # "done"]_vars

\* requests p and q are two send_message requests at work on one chat
SameChat(p, q) == p # q /\ wr[p].op = "send" /\ wr[q].op = "send"
                  /\ wr[p].chat = wr[q].chat /\ wr[p].chat # 0

\* the two rows request p has added are rows of its chat
BothPersisted(p) ==
    /\ \E m \in ChatMessages(wr[p].chat) : m.id = wr[p].uid /\ m.role = "user"
    /\ \E m \in ChatMessages(wr[p].chat) : m.id = wr[p].aid /\ m.role = "assistant"

\* C28: two concurrent send_message requests on one chat both complete in
\* every interleaving, and when both have completed both user messages and
\* one reply per request are rows of the chat: four rows, none lost.
C28_BothSendsComplete ==
    /\ [](\A p, q \in Writers :
            (SameChat(p, q) /\ wr[p].pc = "done" /\ wr[q].pc = "done")
            => /\ wr[p].status = 200 /\ wr[q].status = 200
               /\ BothPersisted(p) /\ BothPersisted(q)
               /\ Cardinality({wr[p].uid, wr[p].aid, wr[q].uid, wr[q].aid}) = 4)
    /\ \A p \in Writers :
          (wr[p].op = "send" /\ wr[p].pc = "store")
          ~> (wr[p].op = "send" /\ wr[p].pc = "done" /\ wr[p].status = 200)

\* both user messages are stored before either reply, the later request's
\* first, and both requests have read a history holding both of them
C28_Witness ==
    /\ SameChat(1, 2)
    /\ wr[1].pc = "inference" /\ wr[2].pc = "inference"
    /\ wr[2].uid < wr[1].uid
    /\ \A m \in ChatMessages(wr[1].chat) : m.role = "user"
    /\ \A p \in Writers :
          {wr[1].uid, wr[2].uid} \subseteq {wr[p].history[i].id : i \in 1..Len(wr[p].history)}

\* C30: when clear_chat_messages runs concurrently with a send_message on the
\* same chat, no final state holds the reply of a turn without the user
\* message of that turn, and a chat that ends with zero messages has a null
\* last_message_at.
C30_ClearAndSendEndConsistent ==
    (\A p \in Writers : Free(p)) =>
        /\ \A p \in Writers :
              (wr[p].op = "send" /\ wr[p].status = 200
                 /\ \E m \in messages : m.id = wr[p].aid)
              => \E m \in messages : m.id = wr[p].uid /\ m.chat_id = wr[p].chat
        /\ \A c \in DOMAIN chats :
              ChatMessages(c) = {} => chats[c].last_message_at = Null

----------------------------------------------------------------------------
(* Properties of the ownership checks, the feedback export and the ratings *)

\* the handlers that look their chat up by id and owner
ChatHandlers == {"send", "clear", "delete_chat", "update_chat", "detailed", "quick"}

\* no table and no sequence changes in this step
StoreUnchanged ==
    UNCHANGED <<messages, nextId, chats, clears, nextChatId, feedbacks,
                nextFeedbackId, rating, total_feedbacks>>

\* C21: get_chat_messages, send_message, clear_chat_messages, delete_chat,
\* update_chat and the creation of a feedback, called for a chat id that does
\* not exist or belongs to another user, answer 404 and leave the store
\* unchanged, without an inference call: a request that goes on after its
\* lookup is one for an existing chat of the caller.
C21_NotFoundLeavesStoreUnchanged ==
    [][/\ \A p \in Writers :
             (Free(p) /\ wr'[p] # wr[p] /\ wr'[p].op \in ChatHandlers)
             => \/ /\ wr'[p].pc = "done" /\ wr'[p].status = 404
                   /\ wr'[p].up.kind = "none" /\ wr'[p].uid = 0 /\ wr'[p].fid = 0
                   /\ StoreUnchanged
                \/ /\ wr'[p].status # 404
                   /\ wr'[p].chat \in DOMAIN chats
                   /\ chats[wr'[p].chat].user_id = wr'[p].user
       /\ (rd' # rd /\ rd'.status # 0)
          => /\ StoreUnchanged
             /\ \/ rd'.status = 404 /\ rd'.messages = <<>>
                \/ /\ rd'.status = 200
                   /\ rd'.chat \in DOMAIN chats
                   /\ chats[rd'.chat].user_id = rd'.user]_vars

C21_Witness ==
    /\ wr[1].op = "update_chat" /\ wr[1].pc = "done" /\ wr[1].status = 404
    /\ messages # {} /\ feedbacks # {}
    /\ \E c \in DOMAIN chats : chats[c].user_id # 1 /\ ~chats[c].custom_name.given

\* the rows a get_unprocessed_feedbacks request p has returned
Listed(p) == {wr[p].list[i] : i \in 1..Len(wr[p].list)}

\* p is a get_unprocessed_feedbacks request that has answered
Exported(p) == wr[p].op = "unprocessed" /\ wr[p].pc = "done" /\ wr[p].status = 200

\* the list of p holds processed = false, allow_training = true rows only, in
\* the order of their creation time
OnlyEligibleInOrder(p) ==
    /\ \A f \in Listed(p) : f \in feedbacks /\ ~f.processed /\ f.allow_training
    /\ \A i, j \in 1..Len(wr[p].list) :
          i < j => /\ wr[p].list[i].created_at <= wr[p].list[j].created_at
                   /\ wr[p].list[i] # wr[p].list[j]

\* C22 as stated: every feedback created with its consent flag set is
\* returned by get_unprocessed_feedbacks until mark_feedback_as_processed is
\* called for it, and the list holds only rows with processed = false and
\* allow_training = true, ordered by creation time.
C22_EveryConsentedFeedbackReturned ==
    \A p \in Writers :
        Exported(p) =>
            /\ \A f \in feedbacks : (f.allow_training /\ ~f.processed) => f \in Listed(p)
            /\ OnlyEligibleInOrder(p)

\* C22, amended: get_unprocessed_feedbacks(limit) returns the first
\* min(limit, n) of the n rows with processed = false and allow_training =
\* true, in the order of their creation time; every such row is returned when
\* limit >= n.
C22_FirstLimitConsentedFeedbacksReturned ==
    \A p \in Writers :
        Exported(p) =>
            LET eligible == {f \in feedbacks : f.allow_training /\ ~f.processed}
            IN  /\ OnlyEligibleInOrder(p)
                /\ Len(wr[p].list) = Min(wr[p].ret, Cardinality(eligible))
                /\ \A f \in eligible \ Listed(p) : \A g \in Listed(p) :
                       g.created_at <= f.created_at
                /\ wr[p].ret >= Cardinality(eligible) => Listed(p) = eligible

C22_Witness ==
    /\ Exported(1) /\ wr[1].ret = 1
    /\ Len(wr[1].list) = 1
    /\ \E f \in feedbacks : f.allow_training /\ ~f.processed /\ f \notin Listed(1)
                            /\ f.created_at > wr[1].list[1].created_at
                            /\ f.feedback_type # wr[1].list[1].feedback_type

\* the row of feedbacks' with the id of f
After(f) == CHOOSE g \in feedbacks' : g.id = f.id

\* some request p ends as a mark_feedback_as_processed of feedback id
MarkedNow(id) ==
    \E p \in Writers : /\ Free(p) /\ wr'[p].op = "processed"
                       /\ wr'[p].status = 200 /\ wr'[p].fid = id

\* processed never goes back to false, and a list returned in this step holds
\* no processed row
ProcessedIsFinal ==
    /\ \A f \in feedbacks : f.processed => After(f).processed
    /\ \A p \in Writers :
          (wr'[p] # wr[p] /\ wr'[p].op = "unprocessed")
          => \A i \in 1..Len(wr'[p].list) :
                \A f \in feedbacks : f.processed => wr'[p].list[i].id # f.id

\* C23 as stated: once a Feedback row exists no operation changes any of its
\* fields, except mark_feedback_as_processed setting processed to true; a
\* processed feedback never becomes unprocessed and never reappears in
\* get_unprocessed_feedbacks.
C23_FeedbackRowsNeverChange ==
    [][/\ \A f \in feedbacks :
             /\ \E g \in feedbacks' : g.id = f.id
             /\ \/ After(f) = f
                \/ After(f) = [f EXCEPT !.processed = TRUE] /\ MarkedNow(f.id)
       /\ ProcessedIsFinal]_vars

\* C23, amended: the only changes of an existing Feedback row are processed
\* set to true by mark_feedback_as_processed and message_id set to NULL when
\* the message it names is deleted (clear_chat_messages, delete_chat); a
\* processed feedback never becomes unprocessed and never reappears in
\* get_unprocessed_feedbacks.
C23_FeedbackRowsChangeOnlyByMarkOrSetNull ==
    [][/\ \A f \in feedbacks :
             /\ \E g \in feedbacks' : g.id = f.id
             /\ \/ After(f) = f
                \/ After(f) = [f EXCEPT !.processed = TRUE] /\ MarkedNow(f.id)
                \/ /\ After(f) = [f EXCEPT !.message_id = Null]
                   /\ \E m \in messages \ messages' : m.id = f.message_id
                   /\ \E p \in Writers : wr'[p].op \in {"clear", "delete_chat"}
                                         /\ wr'[p] # wr[p]
       /\ ProcessedIsFinal]_vars

C23_Witness ==
    /\ Exported(1)
    /\ \E f \in feedbacks :
          /\ f.processed /\ f.message_id = Null /\ f.feedback_type = "quick_reaction"
          /\ f \notin Listed(1)
          /\ \E g \in Listed(1) : g.id > f.id

\* C26: a tutor's rating and total_feedbacks are written only by the rating
\* recompute, which runs only after a detailed feedback with a non-null
\* rating is created; every other operation leaves every tutor's aggregates
\* unchanged, and a recompute for tutor T leaves those of every other tutor
\* unchanged.
C26_AggregatesWrittenOnlyByRecompute ==
    [][/\ (rating' # rating \/ total_feedbacks' # total_feedbacks)
          => \E p \in Writers :
                /\ wr[p].op = "detailed" /\ wr[p].pc = "rate" /\ wr'[p].pc = "mark"
                /\ wr[p].rating # Null
                /\ \A t \in DOMAIN Tutors \ {wr[p].tutor} :
                       rating'[t] = rating[t] /\ total_feedbacks'[t] = total_feedbacks[t]
       /\ \A p \in Writers :
             (wr'[p].pc \in {"tutor", "avg", "rate"})
             => /\ wr'[p].op = "detailed" /\ wr'[p].rating # Null
                /\ \E f \in feedbacks' : /\ f.id = wr'[p].fid /\ f.rating = wr'[p].rating
                                         /\ f.feedback_type = "detailed"
                                         /\ f.tutor_id = wr'[p].tutor
                /\ wr[p].pc = "insert" => wr'[p].fid \notin {f.id : f \in feedbacks}]_vars

C26_Witness ==
    /\ wr[1].op = "processed" /\ wr[1].pc = "done" /\ wr[1].status = 200
    /\ rating[2] = 500 /\ total_feedbacks[2] = 1
    /\ rating[1] = 0 /\ total_feedbacks[1] = 0
    /\ messages # {}

\* C29: when two detailed feedbacks with ratings for one tutor are submitted
\* concurrently, then in every interleaving of their steps, once both
\* requests have completed the tutor's rating and total_feedbacks reflect
\* both feedback rows.
C29_ConcurrentRatingsBothCounted ==
    \A p, q \in Writers :
        (p # q /\ RatedFeedbackDone(p) /\ RatedFeedbackDone(q)
           /\ wr[p].tutor = wr[q].tutor)
        => /\ {wr[p].fid, wr[q].fid} \subseteq {f.id : f \in RatedFeedbacks(wr[p].tutor)}
           /\ total_feedbacks[wr[p].tutor] = Cardinality(RatedFeedbacks(wr[p].tutor))
           /\ IsMeanRounded(rating[wr[p].tutor], RatedFeedbacks(wr[p].tutor))

====
